---- MODULE Spec2Model ----
(***************************************************************************)
(* youtube-music-sync (src/main.py): the download pipeline of main(), the  *)
(* queue builder build_download_queue, the event handler progress_hook and *)
(* the playlist appender update_playlist.                                  *)
(*                                                                         *)
(* Strings are sequences of characters, so that the substring test of the  *)
(* queue builder, the URL construction and Path(...).stem are computed.    *)
(* A Python dict is a function whose DOMAIN is the set of keys present.    *)
(* The remote playlist API and yt-dlp are the environment: their results   *)
(* and the events yt-dlp hands to progress_hook are chosen with \E.        *)
(***************************************************************************)
EXTENDS Integers, Sequences, FiniteSets, TLC

\* ------------------------------------------------------------- bounds
\* Longest track list the playlist API returns in the model.
MaxTracks == 2
\* Most "finished" and "error" events yt-dlp delivers within one run; the other
\* events are not counted, they cannot grow the state.
MaxTerminal == 2

\* ------------------------------------------------------------ strings
RECURSIVE Range(_)
Range(s) == IF s = <<>> THEN {} ELSE {Head(s)} \cup Range(Tail(s))

\* Python's `sub in s` on strings.
Contains(sub, s) ==
    \E i \in 0..(Len(s) - Len(sub)) : SubSeq(s, i + 1, i + Len(sub)) = sub

IsPrefix(s, t) == Len(s) <= Len(t) /\ SubSeq(t, 1, Len(s)) = s

\* s.rfind(c), 1-based; 0 when c does not occur.
RFind(s, c) ==
    IF \E i \in 1..Len(s) : s[i] = c
    THEN CHOOSE i \in 1..Len(s) : s[i] = c /\ \A j \in (i + 1)..Len(s) : s[j] # c
    ELSE 0

\* Video ids of the model; the second is a prefix extension of the first, so
\* that only the brackets of the identity token tell them apart.
VideoIds == {<<"a">>, <<"a", "b">>}

WATCH_URL_PREFIX == <<"https://music.youtube.com/watch?v=">>

\* f"https://music.youtube.com/watch?v={video_id}"
WatchUrl(video_id) == WATCH_URL_PREFIX \o video_id

\* f"[{video_id}]"
IdentityToken(video_id) == <<"[">> \o video_id \o <<"]">>

\* ------------------------------------------------------- environment
\* Tracks the playlist API can return: dicts with or without "videoId"
\* (ytmusicapi also returns an empty/None id for unavailable tracks).
TrackSet ==
    {[title |-> "t", videoId |-> v] : v \in VideoIds \cup {<<>>}}
        \cup {[title |-> "t"]}

RECURSIVE SeqsUpTo(_, _)
SeqsUpTo(S, n) ==
    IF n = 0 THEN {<<>>}
    ELSE LET shorter == SeqsUpTo(S, n - 1)
         IN  shorter \cup {Append(s, x) : s \in {t \in shorter : Len(t) = n - 1}, x \in S}

TrackLists == SeqsUpTo(TrackSet, MaxTracks)

\* *.mp3 file names the music folder can hold.
LocalFileNames ==
    { <<"S", " ", "[", "a", "]", ".", "m", "p", "3">>,
      <<"[", "a", "b", "]", ".", "m", "p", "3">>,
      <<"a", ".", "m", "p", "3">> }

\* File name yt-dlp reports in a "finished" event for the item with this id:
\* the downloaded media file, before conversion to mp3.
MediaPath(video_id) ==
    <<"/", "m", "/", "[">> \o video_id \o <<"]", ".", "w">>

\* Playlist file contents that can predate the run.
ExistingPlaylists == { << <<"/srv/music/", "o", ".", "m", "p", "3", "\n">> >> }

VARIABLES
    pc,                      \* position of main()
    exit_code,               \* process exit status; -1 while running
    config,                  \* main's config dict; <<>> before it is loaded
    PLAYLIST_FILEPATH,       \* module global
    tracks,                  \* main's locals
    downloaded_files,
    songs_to_download,
    retry_list,
    failed_urls,             \* module global: the ErrorSet
    global_progress_bar,     \* module global: aggregate tqdm bar
    individual_progress_bar, \* module global: per-item tqdm bar
    playlist_file,           \* lines of the file at PLAYLIST_FILEPATH
    ydl_urls,                \* list handed to the running ydl.download call
    events_left,             \* "finished"/"error" events yt-dlp may still deliver in this run
    report,                  \* what main logged about failures
    \* history of the run, read by the properties only
    invocations,             \* calls of ydl.download so far
    delivered,               \* per item of this pass: its URL and how many "finished"
                             \* and "error" events yt-dlp has delivered about it
    repeated_error,          \* an "error" event named a URL already in the ErrorSet
    total_finished,          \* "finished" events processed in the run
    playlist_file0,          \* the playlist file as the run found it
    pass1_exact              \* pass 1 got one terminal event about each of its items

vars == << pc, exit_code, config, PLAYLIST_FILEPATH, tracks, downloaded_files,
           songs_to_download, retry_list, failed_urls, global_progress_bar,
           individual_progress_bar, playlist_file, ydl_urls, events_left, report,
           invocations, delivered, repeated_error,
           total_finished, playlist_file0, pass1_exact >>

mainLocals == << tracks, downloaded_files, songs_to_download, retry_list >>
hookState == << failed_urls, global_progress_bar, individual_progress_bar, playlist_file >>
passHistory == << delivered, repeated_error >>

\* Python's None for the two tqdm globals.
NoBar == [kind |-> "None"]

Init ==
    /\ pc = "start"
    /\ exit_code = -1
    /\ config = <<>>
    /\ PLAYLIST_FILEPATH = "None"
    /\ tracks = <<>>
    /\ downloaded_files = {}
    /\ songs_to_download = <<>>
    /\ retry_list = <<>>
    /\ failed_urls = <<>>
    /\ global_progress_bar = NoBar
    /\ individual_progress_bar = NoBar
    /\ playlist_file \in ExistingPlaylists
    /\ playlist_file0 = playlist_file
    /\ ydl_urls = <<>>
    /\ events_left = MaxTerminal
    /\ report = [kind |-> "none", urls |-> <<>>]
    /\ invocations = 0
    /\ delivered = <<>>
    /\ repeated_error = FALSE
    /\ total_finished = 0
    /\ pass1_exact = TRUE


\* ------------------------------------------------- load_configuration
PyNone == "<None>"

\* Python truthiness of an optional string.
Truthy(v) == v # PyNone /\ v # ""

ConfigEnv ==
    [ client_id        |-> "OAUTH2_CLIENT_ID",
      client_secret    |-> "OAUTH2_CLIENT_SECRET",
      oauth2_filepath  |-> "OAUTH2_FILEPATH",
      cookies_filepath |-> "COOKIES_FILEPATH",
      music_folderpath |-> "MUSIC_FOLDERPATH",
      playlist_filepath |-> "PLAYLIST_FILEPATH",
      playlist_id      |-> "PLAYLIST_ID" ]

EnvNames == {ConfigEnv[k] : k \in DOMAIN ConfigEnv}

\* Values a variable of the environment file can be set to.
EnvValues(name) == IF name = "COOKIES_FILEPATH" THEN {"", "cookies.txt"} ELSE {"x"}

\* Process environments after load_dotenv: any subset of the variables set.
Environments ==
    { env \in UNION { [S -> {"", "cookies.txt", "x"}] : S \in SUBSET EnvNames } :
        \A name \in DOMAIN env : env[name] \in EnvValues(name) }

\* os.getenv(name)
GetEnv(env, name) == IF name \in DOMAIN env THEN env[name] ELSE PyNone

ReadConfig(env) == [k \in DOMAIN ConfigEnv |-> GetEnv(env, ConfigEnv[k])]

\* Mutant: the cookies file is required like every other value.
MissingKeys_CookiesRequired(cfg) == {k \in DOMAIN cfg : cfg[k] = PyNone}

\* lines 46-48: every key but cookies_filepath whose value is None.
MissingKeys(cfg) == {k \in DOMAIN cfg : k # "cookies_filepath" /\ cfg[k] = PyNone}

\* main, lines 204-228: load_configuration raises ValueError when a required
\* value is missing and main exits with status 1.
LoadConfigurationFrom(env) ==
    /\ pc = "start"
    /\ LET cfg == ReadConfig(env) IN
        IF MissingKeys(cfg) # {}
        THEN /\ pc' = "exit"
             /\ exit_code' = 1
             /\ UNCHANGED << config, PLAYLIST_FILEPATH >>
        ELSE /\ pc' = "configured"
             /\ config' = cfg
             /\ PLAYLIST_FILEPATH' = cfg.playlist_filepath
             /\ UNCHANGED exit_code
    /\ UNCHANGED << mainLocals, hookState, ydl_urls, events_left, report,
                    invocations, passHistory, total_finished, playlist_file0, pass1_exact >>

\* The environment file is an input of the run.
LoadConfiguration == \E env \in Environments : LoadConfigurationFrom(env)

\* main, lines 231-232: initialize_api and get_playlist. Either call can raise
\* (bad credentials, network); nothing catches it and Python exits with 1.
GetPlaylist ==
    /\ pc = "configured"
    /\ \/ /\ \E ts \in TrackLists : tracks' = ts
          /\ pc' = "fetched"
          /\ UNCHANGED exit_code
       \/ /\ pc' = "exit"
          /\ exit_code' = 1
          /\ UNCHANGED tracks
    /\ UNCHANGED << config, PLAYLIST_FILEPATH, downloaded_files, songs_to_download,
                    retry_list, hookState, ydl_urls, events_left, report,
                    invocations, passHistory, total_finished, playlist_file0, pass1_exact >>

\* main, line 233: get_already_downloaded lists the *.mp3 files of the folder.
GetAlreadyDownloaded ==
    /\ pc = "fetched"
    /\ \E files \in SUBSET LocalFileNames : downloaded_files' = files
    /\ pc' = "scanned"
    /\ UNCHANGED << exit_code, config, PLAYLIST_FILEPATH, tracks, songs_to_download,
                    retry_list, hookState, ydl_urls, events_left, report,
                    invocations, passHistory, total_finished, playlist_file0, pass1_exact >>

\* ------------------------------------------------ build_download_queue
\* Mutant: the scan of the music folder is not consulted.
IsAlreadyDownloaded_Never(video_id, already_downloaded) == FALSE

\* Mutant: the `if not video_id: continue` guard is lost.
HasVideoId_Always(track) == TRUE

\* video_id = track.get("videoId"); `not video_id` is true for None and "".
HasVideoId(track) == "videoId" \in DOMAIN track /\ track.videoId # <<>>

\* Mutant: the bare id is searched for, without its brackets.
IsAlreadyDownloaded_NoBrackets(video_id, already_downloaded) ==
    \E filename \in already_downloaded : Contains(video_id, filename)

\* Mutant: the file name is compared with the token instead of searched for it.
IsAlreadyDownloaded_WholeName(video_id, already_downloaded) ==
    \E filename \in already_downloaded : filename = IdentityToken(video_id)

\* any(f"[{video_id}]" in filename for filename in already_downloaded)
IsAlreadyDownloaded(video_id, already_downloaded) ==
    \E filename \in already_downloaded : Contains(IdentityToken(video_id), filename)

\* str(track.get("videoId")) as an f-string would render it.
VideoIdText(track) ==
    IF "videoId" \in DOMAIN track THEN track.videoId ELSE <<"N", "o", "n", "e">>

\* One iteration of the loop over tracks: the queue after this track.
QueueStep(queue, track, already_downloaded) ==
    IF ~HasVideoId(track) THEN queue
    ELSE IF ~IsAlreadyDownloaded(VideoIdText(track), already_downloaded)
         THEN Append(queue, WatchUrl(VideoIdText(track)))
         ELSE queue

RECURSIVE QueueLoop(_, _, _)
QueueLoop(queue, ts, already_downloaded) ==
    IF ts = <<>> THEN queue
    ELSE QueueLoop(QueueStep(queue, Head(ts), already_downloaded), Tail(ts),
                   already_downloaded)

build_download_queue(ts, already_downloaded) == QueueLoop(<<>>, ts, already_downloaded)

\* Mutant: the early exit is never taken.
QueueIsEmpty_Never(queue) == FALSE

\* `if not songs_to_download`
QueueIsEmpty(queue) == queue = <<>>

\* main, lines 234-238: build the queue; an empty queue ends the run with
\* sys.exit(0).
BuildQueue ==
    /\ pc = "scanned"
    /\ songs_to_download' = build_download_queue(tracks, downloaded_files)
    /\ IF QueueIsEmpty(songs_to_download')
       THEN pc' = "exit" /\ exit_code' = 0
       ELSE pc' = "queued" /\ UNCHANGED exit_code
    /\ UNCHANGED << config, PLAYLIST_FILEPATH, tracks, downloaded_files,
                    retry_list, hookState, ydl_urls, events_left, report,
                    invocations, passHistory, total_finished, playlist_file0, pass1_exact >>


\* ------------------------------------------------------------- tqdm
\* tqdm(total=...): a bar at position n = 0 (desc, unit and position only
\* change how the bar is drawn).
Tqdm(total) == [kind |-> "tqdm", total |-> total, n |-> 0, closed |-> FALSE]

\* bar.update(k): n += k, for negative k as well.
TqdmUpdate(bar, k) == [bar EXCEPT !.n = @ + k]

TqdmClose(bar) == [bar EXCEPT !.closed = TRUE]

\* `if bar:` -- None is falsy and tqdm.__bool__ is `total > 0` when a total was given.
TqdmBool(bar) == bar # NoBar /\ bar.total > 0

\* ------------------------------------------------------ update_playlist
\* The final component of a path.
PathName(path) == SubSeq(path, RFind(path, "/") + 1, Len(path))

\* Path(filepath).stem: the name without its last suffix; a leading or a
\* trailing dot starts no suffix.
PathStem(path) ==
    LET name == PathName(path)
        i == RFind(name, ".")
    IN  IF 1 < i /\ i < Len(name) THEN SubSeq(name, 1, i - 1) ELSE name

\* Mutant: the file is opened with mode "w" instead of "a".
update_playlist_Overwrite(file, filename) ==
    << <<"/srv/music/">> \o filename \o <<"\n">> >>

\* entry = f"/srv/music/{filename}\n", appended to the file.
update_playlist(file, filename) ==
    Append(file, <<"/srv/music/">> \o filename \o <<"\n">>)

\* -------------------------------------------------------- progress_hook
\* d.get(key, default)
Get(d, key, default) == IF key \in DOMAIN d THEN d[key] ELSE default

Merge(f, g) ==
    [k \in DOMAIN f \cup DOMAIN g |-> IF k \in DOMAIN g THEN g[k] ELSE f[k]]

\* A key that is absent, or present with one of the values.
Optional(key, values) == {<<>>} \cup {[k \in {key} |-> v] : v \in values}

\* The video id of a watch URL, and the title yt-dlp reports for it.
VideoIdOf(url) == Tail(url)
TitleOf(url) == <<"T">> \o VideoIdOf(url)

\* info_dict of an event about the item `url`, complete or with fields missing.
InfoDicts(url) ==
    Optional("info_dict", { [title |-> TitleOf(url), webpage_url |-> url],
                            [title |-> TitleOf(url)],
                            [webpage_url |-> url] })

\* The title of a "downloading" event only labels the bar; it is left out.
DownloadingEvents(url) ==
    { Merge(Merge(Merge([status |-> "downloading"], tb), tbe), db) :
        tb \in Optional("total_bytes", {2}),
        tbe \in Optional("total_bytes_estimate", {3}),
        db \in Optional("downloaded_bytes", {1, 2}) }

FinishedEvents(url) ==
    { Merge(Merge([status |-> "finished"], fn), info) :
        fn \in Optional("filename", {MediaPath(VideoIdOf(url))}),
        info \in InfoDicts(url) }

ErrorEvents(url) ==
    { Merge(Merge([status |-> "error"], err), info) :
        err \in Optional("error", {"HTTP Error 403"}),
        info \in InfoDicts(url) }

\* Events with a status the hook does not know, or with none.
OtherEvents(url) == { [status |-> "processing"], <<>> }

EventsAbout(url) ==
    DownloadingEvents(url) \cup FinishedEvents(url) \cup ErrorEvents(url)
        \cup OtherEvents(url)

\* The events yt-dlp can deliver about each URL it can be given.
Events == [url \in {WatchUrl(v) : v \in VideoIds} |-> EventsAbout(url)]

Status(d) == Get(d, "status", PyNone)

\* d.get("total_bytes") or d.get("total_bytes_estimate") or 0
TotalBytes(d) ==
    IF Get(d, "total_bytes", 0) # 0 THEN d.total_bytes
    ELSE IF Get(d, "total_bytes_estimate", 0) # 0 THEN d.total_bytes_estimate
    ELSE 0

\* lines 151-165: the per-item bar after a "downloading" event.
OnDownloading(bar, d) ==
    IF bar = NoBar
    THEN Tqdm(TotalBytes(d))
    ELSE TqdmUpdate(bar, Get(d, "downloaded_bytes", 0) - bar.n)

\* lines 168-170 and 180-182: `if individual_progress_bar:` close it and forget it.
CloseIndividual(bar) == IF TqdmBool(bar) THEN NoBar ELSE bar

\* Mutant: the aggregate bar is not advanced.
TickGlobal_Skip(bar) == bar

\* lines 171 and 188: global_progress_bar.update(1)
TickGlobal(bar) == TqdmUpdate(bar, 1)

\* lines 172-173: filename = f"{Path(filepath).stem}.mp3"
FinishedFilename(d) == PathStem(Get(d, "filename", <<>>)) \o <<".", "m", "p", "3">>

\* lines 172-175: the playlist file after a "finished" event.
OnFinishedPlaylist(file, d) == update_playlist(file, FinishedFilename(d))

\* line 184: failed_url is set and truthy.
HasFailedUrl(d) == "webpage_url" \in DOMAIN Get(d, "info_dict", <<>>)

\* Mutant: the `not in failed_urls` test is lost.
RecordFailure_NoDedup(failed, d) ==
    IF HasFailedUrl(d) THEN Append(failed, d.info_dict.webpage_url) ELSE failed

\* lines 184-187: the ErrorSet after an "error" event.
RecordFailure(failed, d) ==
    IF HasFailedUrl(d) /\ d.info_dict.webpage_url \notin Range(failed)
    THEN Append(failed, d.info_dict.webpage_url)
    ELSE failed

\* Mutant: the last branch is a plain `else`, so an event of any other status
\* is handled as an error.
progress_hook_ElseIsError(d) ==
    CASE Status(d) = "downloading" ->
            /\ individual_progress_bar' = OnDownloading(individual_progress_bar, d)
            /\ UNCHANGED << failed_urls, global_progress_bar, playlist_file >>
      [] Status(d) = "finished" ->
            /\ individual_progress_bar' = CloseIndividual(individual_progress_bar)
            /\ global_progress_bar' = TickGlobal(global_progress_bar)
            /\ playlist_file' = OnFinishedPlaylist(playlist_file, d)
            /\ UNCHANGED failed_urls
      [] OTHER ->
            /\ individual_progress_bar' = CloseIndividual(individual_progress_bar)
            /\ failed_urls' = RecordFailure(failed_urls, d)
            /\ global_progress_bar' = TickGlobal(global_progress_bar)
            /\ UNCHANGED playlist_file

\* lines 142-188: the if/elif chain on d.get("status").
progress_hook(d) ==
    CASE Status(d) = "downloading" ->
            /\ individual_progress_bar' = OnDownloading(individual_progress_bar, d)
            /\ UNCHANGED << failed_urls, global_progress_bar, playlist_file >>
      [] Status(d) = "finished" ->
            /\ individual_progress_bar' = CloseIndividual(individual_progress_bar)
            /\ global_progress_bar' = TickGlobal(global_progress_bar)
            /\ playlist_file' = OnFinishedPlaylist(playlist_file, d)
            /\ UNCHANGED failed_urls
      [] Status(d) = "error" ->
            /\ individual_progress_bar' = CloseIndividual(individual_progress_bar)
            /\ failed_urls' = RecordFailure(failed_urls, d)
            /\ global_progress_bar' = TickGlobal(global_progress_bar)
            /\ UNCHANGED playlist_file
      [] OTHER -> UNCHANGED hookState

\* yt-dlp calls the hook with an event about one of the URLs it was given.
IsTerminal(d) == Status(d) \in {"finished", "error"}

\* The hook processes event d about the i-th URL of the running download.
HookStep(i, d) ==
    /\ pc \in {"pass1", "pass2"}
    /\ IsTerminal(d) => events_left > 0
    /\ events_left' = events_left - (IF IsTerminal(d) THEN 1 ELSE 0)
    /\ progress_hook(d)
    /\ delivered' =
            [delivered EXCEPT
                ![i].finished = @ + (IF Status(d) = "finished" THEN 1 ELSE 0),
                ![i].error = @ + (IF Status(d) = "error" THEN 1 ELSE 0)]
    /\ total_finished' = total_finished + (IF Status(d) = "finished" THEN 1 ELSE 0)
    /\ repeated_error' =
            (repeated_error \/ ( /\ Status(d) = "error"
                                 /\ HasFailedUrl(d)
                                 /\ d.info_dict.webpage_url \in Range(failed_urls) ))
    /\ UNCHANGED << pc, exit_code, config, PLAYLIST_FILEPATH, mainLocals, ydl_urls,
                    report, invocations, playlist_file0, pass1_exact >>

ProgressHook ==
    \E i \in 1..Len(ydl_urls) : \E d \in Events[ydl_urls[i]] : HookStep(i, d)

\* ------------------------------------------------------- download_songs
\* lines 194-199: a fresh aggregate bar, then ydl.download(songs) starts.
StartDownload(songs) ==
    /\ global_progress_bar' = Tqdm(Len(songs))
    /\ ydl_urls' = songs
    /\ invocations' = invocations + 1
    /\ delivered' = [i \in 1..Len(songs) |-> [url |-> songs[i], finished |-> 0, error |-> 0]]
    /\ repeated_error' = FALSE

\* line 200, once ydl.download has returned.
EndDownload ==
    /\ global_progress_bar' = TqdmClose(global_progress_bar)
    /\ ydl_urls' = <<>>

\* main, lines 241-243: the first attempt. main never reads tracks and
\* downloaded_files after line 234; the model drops the two dead locals here.
StartPass1 ==
    /\ pc = "queued"
    /\ StartDownload(songs_to_download)
    /\ pc' = "pass1"
    /\ tracks' = <<>>
    /\ downloaded_files' = {}
    /\ UNCHANGED << exit_code, config, PLAYLIST_FILEPATH, songs_to_download, retry_list,
                    failed_urls, individual_progress_bar, playlist_file, events_left,
                    report, total_finished, playlist_file0, pass1_exact >>

\* download_songs returns to main (line 244).
FinishPass1 ==
    /\ pc = "pass1"
    /\ EndDownload
    /\ pc' = "decide"
    /\ pass1_exact' = \A i \in 1..Len(delivered) :
                            delivered[i].finished + delivered[i].error = 1
    /\ UNCHANGED << exit_code, config, PLAYLIST_FILEPATH, mainLocals, failed_urls,
                    individual_progress_bar, playlist_file, events_left, report,
                    invocations, passHistory, total_finished, playlist_file0 >>

\* Mutant: the retry does not ask for the cookies file.
ShouldRetry_IgnoringCookies == failed_urls # <<>>

\* line 247: `if failed_urls and config.get("cookies_filepath")`
ShouldRetry == failed_urls # <<>> /\ Truthy(config.cookies_filepath)

\* lines 262-265: what main logs when it does not retry.
ReportWithoutRetry(failed) ==
    IF failed # <<>> THEN [kind |-> "failed", urls |-> failed]
    ELSE [kind |-> "none", urls |-> <<>>]

\* lines 256-261: what main logs after the retry.
ReportAfterRetry(failed) ==
    IF failed # <<>> THEN [kind |-> "still failed", urls |-> failed]
    ELSE [kind |-> "all succeeded on retry", urls |-> <<>>]

\* Mutant: main reads the ErrorSet while the first download is still running.
AtRetryDecision_DuringPass1 == pc \in {"pass1", "decide"}

\* line 247 is reached when download_songs (line 244) has returned.
AtRetryDecision == pc = "decide"

\* Mutant: the ErrorSet is not cleared before the retry.
ClearFailedUrls_Keep(failed) == failed

\* line 250: failed_urls.clear()
ClearFailedUrls(failed) == <<>>

\* Mutant: a run that leaves failures behind exits with status 1.
ExitStatus_FailuresAreFatal(failed) == IF failed # <<>> THEN 1 ELSE 0

\* line 267: main returns normally whatever failed_urls holds.
ExitStatus(failed) == 0

\* main, lines 247-255 and 262-267: retry the failed URLs with cookies, or
\* report them and return.
RetryDecision ==
    /\ AtRetryDecision
    /\ IF ShouldRetry
       THEN /\ retry_list' = failed_urls
            /\ failed_urls' = ClearFailedUrls(failed_urls)
            /\ StartDownload(retry_list')
            /\ pc' = "pass2"
            /\ UNCHANGED << exit_code, report >>
       ELSE /\ report' = ReportWithoutRetry(failed_urls)
            /\ pc' = "done"
            /\ exit_code' = ExitStatus(failed_urls)
            /\ UNCHANGED << retry_list, failed_urls, global_progress_bar, ydl_urls,
                            invocations, passHistory >>
    /\ UNCHANGED << config, PLAYLIST_FILEPATH, tracks, downloaded_files,
                    songs_to_download, individual_progress_bar, playlist_file,
                    events_left, total_finished, playlist_file0, pass1_exact >>

\* main, lines 255-267: the retry returns; report and return.
FinishPass2 ==
    /\ pc = "pass2"
    /\ EndDownload
    /\ report' = ReportAfterRetry(failed_urls)
    /\ pc' = "done"
    /\ exit_code' = ExitStatus(failed_urls)
    /\ UNCHANGED << config, PLAYLIST_FILEPATH, mainLocals, failed_urls,
                    individual_progress_bar, playlist_file, events_left, invocations,
                    passHistory, total_finished, playlist_file0, pass1_exact >>

Next ==
    \/ LoadConfiguration
    \/ GetPlaylist
    \/ GetAlreadyDownloaded
    \/ BuildQueue
    \/ StartPass1
    \/ ProgressHook
    \/ FinishPass1
    \/ RetryDecision
    \/ FinishPass2

Spec == Init /\ [][Next]_vars


\* ---------------------------------------------------------- properties
\* What the properties read off the history of the current (or last) pass.
Errored == {delivered[i].url : i \in {j \in DOMAIN delivered : delivered[j].error > 0}}
Finished == {delivered[i].url : i \in {j \in DOMAIN delivered : delivered[j].finished > 0}}

RECURSIVE SumTerminal(_)
SumTerminal(del) ==
    IF del = <<>> THEN 0
    ELSE Head(del).finished + Head(del).error + SumTerminal(Tail(del))

\* Every item of the pass got exactly one "finished" or "error" event.
ExactlyOneTerminalEach ==
    \A i \in DOMAIN delivered : delivered[i].finished + delivered[i].error = 1

\* The URLs of the items of the pass, in order.
UrlsOfPass(del) == [i \in 1..Len(del) |-> del[i].url]

\* ydl.download has returned and no later pass has started.
PassDrained == pc \in {"decide", "done"}

InPass == pc \in {"pass1", "pass2"}

\* build_download_queue has returned (an empty queue has already ended the run).
QueueBuilt == pc = "queued" \/ (pc = "exit" /\ exit_code = 0)

NoDuplicates(s) == \A i, j \in 1..Len(s) : i # j => s[i] # s[j]

Occurrences(s, x) == Cardinality({i \in 1..Len(s) : s[i] = x})

\* The claims' own reading of "identifier present" and of "[remoteId] occurs
\* in a local filename".
IdPresent(track) == "videoId" \in DOMAIN track /\ Len(track.videoId) > 0
TokenInSomeFile(video_id, files) ==
    \E f \in files : \E i \in 1..Len(f) :
        /\ i + Len(video_id) + 1 <= Len(f)
        /\ f[i] = "["
        /\ \A k \in 1..Len(video_id) : f[i + k] = video_id[k]
        /\ f[i + Len(video_id) + 1] = "]"
Eligible(track, files) == IdPresent(track) /\ ~TokenInSomeFile(track.videoId, files)

RECURSIVE UrlsOf(_)
UrlsOf(ts) ==
    IF ts = <<>> THEN <<>>
    ELSE <<WATCH_URL_PREFIX \o Head(ts).videoId>> \o UrlsOf(Tail(ts))

\* C1: a second download pass starts if and only if, when pass 1 has returned,
\* failed_urls is non-empty and a cookies file is configured: the step taken at
\* the retry decision then starts ydl.download over exactly the failed URLs;
\* in every other case it reports and ends the run without another download,
\* and no other step of the run starts a download after pass 1.
RetryIffErrorsAndCookies ==
    [][ /\ pc = "decide" =>
            IF failed_urls # <<>> /\ config.cookies_filepath \notin {PyNone, ""}
            THEN /\ pc' = "pass2"
                 /\ invocations' = invocations + 1
                 /\ ydl_urls' = failed_urls
            ELSE /\ pc' = "done"
                 /\ invocations' = invocations
                 /\ report'.urls = failed_urls
        /\ invocations' # invocations => pc \in {"queued", "decide"}
        /\ pc' = "pass2" => pc \in {"decide", "pass2"}
      ]_vars

\* C1 witness: the retry pass has started, over a non-empty retry list and
\* with a cookies file configured.
RetryStarted ==
    /\ pc = "pass2"
    /\ invocations = 2
    /\ retry_list # <<>>
    /\ ydl_urls = retry_list
    /\ Truthy(config.cookies_filepath)

\* C2 (as claimed): after a retry pass the reported failures are exactly the
\* items yt-dlp reported an error for in pass 2, an item that finished in
\* pass 2 without an error is not reported, and ydl.download is called at most
\* twice in a run.
ReportAfterRetryIsPass2Failures ==
    /\ invocations <= 2
    /\ (pc = "done" /\ invocations = 2) =>
        /\ Range(report.urls) = Errored
        /\ (Finished \ Errored) \cap Range(report.urls) = {}

\* C3: within a pass the aggregate counter moves only by +1, once per
\* "finished" or "error" event; each pass starts it at 0; and once a pass has
\* drained in which every submitted item got its one "finished" or "error"
\* event, the counter equals the number of items submitted to that pass.
AggregateCounterCountsItems ==
    [][ /\ (InPass /\ pc' = pc) =>
            /\ global_progress_bar'.n - global_progress_bar.n
                    = SumTerminal(delivered') - SumTerminal(delivered)
            /\ global_progress_bar'.n - global_progress_bar.n \in {0, 1}
        /\ (InPass' /\ pc' # pc) =>
            global_progress_bar'.n = 0 /\ Len(delivered') = Len(ydl_urls')
        /\ (PassDrained' /\ ExactlyOneTerminalEach') =>
            global_progress_bar'.n = Len(delivered')
      ]_vars

\* C3 witness: a drained pass of two items, one finished and one errored.
PassOfTwoDrained ==
    /\ PassDrained
    /\ ExactlyOneTerminalEach
    /\ Len(delivered) = 2
    /\ \E i, j \in DOMAIN delivered : delivered[i].finished = 1 /\ delivered[j].error = 1
    /\ global_progress_bar.n = 2

\* C4 (as claimed): every item yt-dlp reported an error for during the last
\* pass is in failed_urls when that pass has returned and is listed in the
\* final report, whichever fields the "error" event lacked.
EveryErrorIsReported ==
    /\ pc = "decide" => Errored \subseteq Range(failed_urls)
    /\ pc = "done" => Errored \subseteq Range(report.urls)

\* C5: failed_urls never holds the same URL twice.
ErrorSetHasNoDuplicates == NoDuplicates(failed_urls)

\* C5 witness: an "error" event named a URL that was already in failed_urls.
RepeatedErrorSeen == InPass /\ repeated_error /\ failed_urls # <<>>

\* C6 (as claimed): every track with an identifier whose token is in no local
\* filename has its URL in the queue exactly once, and the queue lists those
\* tracks in playlist order.
EligibleTrackQueuedExactlyOnce ==
    QueueBuilt =>
        /\ \A i \in 1..Len(tracks) :
            Eligible(tracks[i], downloaded_files) =>
                Occurrences(songs_to_download, WATCH_URL_PREFIX \o tracks[i].videoId) = 1
        /\ songs_to_download
            = UrlsOf(SelectSeq(tracks, LAMBDA t : Eligible(t, downloaded_files)))

\* C6 (amended): the queue is the list of the URLs of the eligible tracks, in
\* playlist order, one entry per eligible track of the list: a URL is queued
\* as many times as its identifier occurs in the track list, hence exactly
\* once when the identifiers of the list are distinct.
QueueIsEligibleTracksInOrder ==
    QueueBuilt =>
        /\ songs_to_download
            = UrlsOf(SelectSeq(tracks, LAMBDA t : Eligible(t, downloaded_files)))
        /\ \A i \in 1..Len(tracks) :
            Eligible(tracks[i], downloaded_files) =>
                Occurrences(songs_to_download, WATCH_URL_PREFIX \o tracks[i].videoId)
                    = Cardinality({j \in 1..Len(tracks) :
                                    IdPresent(tracks[j]) /\ tracks[j].videoId = tracks[i].videoId})

\* C6 witness: two eligible tracks with different identifiers, queued in
\* playlist order although the folder holds a file.
TwoTracksQueuedInOrder ==
    /\ QueueBuilt
    /\ Len(tracks) = 2
    /\ downloaded_files # {}
    /\ Eligible(tracks[1], downloaded_files)
    /\ Eligible(tracks[2], downloaded_files)
    /\ tracks[1].videoId # tracks[2].videoId
    /\ songs_to_download = << WATCH_URL_PREFIX \o tracks[1].videoId,
                              WATCH_URL_PREFIX \o tracks[2].videoId >>

\* C7: a track whose token [remoteId] is contained in a local filename is not
\* in the queue, and every URL of the queue is the URL of a track of the list
\* that has an identifier and no matching local file.
LocalTracksAreExcluded ==
    QueueBuilt =>
        /\ \A i \in 1..Len(tracks) :
            (IdPresent(tracks[i]) /\ TokenInSomeFile(tracks[i].videoId, downloaded_files))
                => (WATCH_URL_PREFIX \o tracks[i].videoId) \notin Range(songs_to_download)
        /\ \A u \in Range(songs_to_download) :
            \E i \in 1..Len(tracks) :
                /\ Eligible(tracks[i], downloaded_files)
                /\ u = WATCH_URL_PREFIX \o tracks[i].videoId

\* C7 witness: of two tracks the one with a local file "... [id].mp3" is left
\* out and the other one is queued.
LocalTrackLeftOut ==
    /\ QueueBuilt
    /\ Len(tracks) = 2
    /\ IdPresent(tracks[1])
    /\ TokenInSomeFile(tracks[1].videoId, downloaded_files)
    /\ Eligible(tracks[2], downloaded_files)
    /\ songs_to_download = << WATCH_URL_PREFIX \o tracks[2].videoId >>

\* C8: a track without an identifier (no "videoId", or an empty one) puts
\* nothing in the queue and does not stop the build: the queue is what the
\* other tracks of the list yield, and an empty list yields an empty queue.
TracksWithoutIdAreSkipped ==
    /\ pc = "scanned" => ENABLED BuildQueue
    /\ QueueBuilt =>
        /\ tracks = <<>> => songs_to_download = <<>>
        /\ Len(songs_to_download) <= Cardinality({i \in 1..Len(tracks) : IdPresent(tracks[i])})
        /\ \A u \in Range(songs_to_download) :
            \E i \in 1..Len(tracks) :
                IdPresent(tracks[i]) /\ u = WATCH_URL_PREFIX \o tracks[i].videoId
        /\ songs_to_download
            = UrlsOf(SelectSeq(tracks, LAMBDA t : Eligible(t, downloaded_files)))

\* C8 witness: a track without "videoId" comes first and the track after it
\* is queued.
TrackWithoutIdSkipped ==
    /\ QueueBuilt
    /\ Len(tracks) = 2
    /\ "videoId" \notin DOMAIN tracks[1]
    /\ IdPresent(tracks[2])
    /\ songs_to_download = << WATCH_URL_PREFIX \o tracks[2].videoId >>

\* C9: with an empty queue the run ends at once with exit code 0: no download
\* is started, no event is processed and the playlist file is as it was; and
\* the run goes on to a download only with a non-empty queue.
EmptyQueueEndsRun ==
    /\ pc \in {"queued", "pass1", "decide", "pass2", "done"} => songs_to_download # <<>>
    /\ (QueueBuilt /\ songs_to_download = <<>>) =>
        /\ pc = "exit"
        /\ exit_code = 0
        /\ invocations = 0
        /\ total_finished = 0
        /\ events_left = MaxTerminal
        /\ delivered = <<>>
        /\ failed_urls = <<>>
        /\ global_progress_bar = NoBar
        /\ individual_progress_bar = NoBar
        /\ playlist_file = playlist_file0

\* C9 witness: a playlist with tracks, all of them local or without an
\* identifier, ended the run with exit code 0.
NothingToDownload ==
    /\ pc = "exit"
    /\ exit_code = 0
    /\ Len(tracks) = 2
    /\ IdPresent(tracks[1])
    /\ songs_to_download = <<>>

\* C10: the playlist file only grows at its end: every step leaves the old
\* content as a prefix of the new one, a step appends one line exactly when it
\* processes a "finished" event, and the lines appended during the run are as
\* many as the "finished" events processed.
PlaylistFileIsAppendOnly ==
    [][ /\ IsPrefix(playlist_file, playlist_file')
        /\ Len(playlist_file') - Len(playlist_file) = total_finished' - total_finished
        /\ total_finished' - total_finished \in {0, 1}
        /\ Len(playlist_file') = Len(playlist_file0') + total_finished'
        /\ IsPrefix(playlist_file0', playlist_file')
      ]_vars

\* C10 witness: two "finished" events have been processed and the file has
\* two lines more than at the start.
TwoLinesAppended ==
    /\ total_finished = 2
    /\ Len(playlist_file) = Len(playlist_file0) + 2
    /\ IsPrefix(playlist_file0, playlist_file)

\* An event of the given status about url with every field the hook reads.
WellFormedEvent(url, status) ==
    CASE status = "downloading" ->
            [status |-> "downloading", total_bytes |-> 2, total_bytes_estimate |-> 3,
             downloaded_bytes |-> 1]
      [] status = "finished" ->
            [status |-> "finished", filename |-> MediaPath(VideoIdOf(url)),
             info_dict |-> [title |-> TitleOf(url), webpage_url |-> url]]
      [] status = "error" ->
            [status |-> "error", error |-> <<"4", "0", "3">>,
             info_dict |-> [title |-> TitleOf(url), webpage_url |-> url]]

\* The step has done to the handler state what the event w of the same status
\* does: the same tracker activity, the same tick of the aggregate counter, the
\* same number of playlist lines and the same ErrorSet.
SameTransitionAs(w) ==
    /\ pc' = pc
    /\ exit_code' = exit_code
    /\ (individual_progress_bar' = NoBar) <=>
            IF Status(w) = "downloading" THEN FALSE
            ELSE CloseIndividual(individual_progress_bar) = NoBar
    /\ global_progress_bar' =
            IF IsTerminal(w) THEN TickGlobal(global_progress_bar) ELSE global_progress_bar
    /\ Len(playlist_file') =
            Len(playlist_file) + (IF Status(w) = "finished" THEN 1 ELSE 0)
    /\ failed_urls' =
            IF Status(w) = "error" THEN RecordFailure(failed_urls, w) ELSE failed_urls

\* C11: an event of a known status with any of its fields missing is handled
\* without an error and makes the transition a well-formed event of that status
\* about the same item makes; the pass goes on.
MalformedEventActsAsWellFormed ==
    [][ \A i \in 1..Len(ydl_urls) : \A d \in Events[ydl_urls[i]] :
            (HookStep(i, d) /\ Status(d) \in {"downloading", "finished", "error"})
                => SameTransitionAs(WellFormedEvent(ydl_urls[i], Status(d)))
      ]_vars

\* A required variable is not set in the environment.
RequiredMissing(env) ==
    \E name \in EnvNames \ {"COOKIES_FILEPATH"} : name \notin DOMAIN env

\* C12: loading an environment that lacks a required variable ends the run with
\* a non-zero exit code in that very step, with no playlist fetched, no download
\* started and the playlist file untouched, and the run takes no step after it;
\* an environment with every required variable loads, with or without the
\* cookies file.
ConfigurationErrorIsFatal ==
    [][ /\ pc = "start" =>
            \A env \in Environments :
                LoadConfigurationFrom(env) =>
                    IF RequiredMissing(env)
                    THEN /\ pc' = "exit"
                         /\ exit_code' # 0
                         /\ tracks' = <<>>
                         /\ invocations' = 0
                         /\ playlist_file' = playlist_file
                         /\ UNCHANGED << config, mainLocals, hookState, ydl_urls >>
                    ELSE /\ pc' = "configured"
                         /\ config' = ReadConfig(env)
                         /\ exit_code' = exit_code
        /\ ~(pc = "exit" /\ config = <<>>)
      ]_vars

\* C12 witness: the run has ended on a configuration error.
ConfigurationErrorExit ==
    /\ pc = "exit"
    /\ exit_code = 1
    /\ config = <<>>
    /\ tracks = <<>>
    /\ invocations = 0
    /\ playlist_file = playlist_file0

\* C13: a run whose queue was not empty and whose passes have returned has
\* ended with exit code 0, whatever was finished, failed or retried; the exit
\* code is non-zero only in runs that never started a download.
CompletedRunExitsZero ==
    /\ pc = "done" => (songs_to_download # <<>> /\ invocations >= 1 /\ exit_code = 0)
    /\ invocations >= 1 => exit_code \in {-1, 0}
    /\ (invocations >= 1 /\ exit_code = -1) => pc \in {"pass1", "decide", "pass2"}

\* C13 witness: the run retried, an item failed again, and the run ended with
\* exit code 0 and the failure in its report.
FailedRunExitedZero ==
    /\ pc = "done"
    /\ exit_code = 0
    /\ invocations = 2
    /\ report.kind = "still failed"
    /\ report.urls # <<>>

\* C14: a "downloading" event processed while a tracker is active never moves
\* the tracker's position back, and leaves it at the cumulative byte count the
\* event reports, whatever item the event is about and whether or not it
\* carries a byte count.
ItemProgressIsMonotonic ==
    [][ \A i \in 1..Len(ydl_urls) : \A d \in Events[ydl_urls[i]] :
            ( /\ Status(d) = "downloading"
              /\ individual_progress_bar # NoBar
              /\ HookStep(i, d) )
                => /\ individual_progress_bar'.n >= individual_progress_bar.n
                   /\ "downloaded_bytes" \in DOMAIN d
                        => individual_progress_bar'.n = d.downloaded_bytes
      ]_vars

\* The total the claim expects a new tracker to have: the reported total, else
\* the estimate, else zero.
ReportedTotal(d) ==
    IF "total_bytes" \in DOMAIN d THEN d.total_bytes
    ELSE IF "total_bytes_estimate" \in DOMAIN d THEN d.total_bytes_estimate
    ELSE 0

\* C15: a "downloading" event that finds no tracker creates one, unstarted and
\* sized to the event's total; every "finished" and every "error" event leaves
\* no tracker behind, so the next "downloading" event starts a fresh one.
TrackerLifecycle ==
    [][ \A i \in 1..Len(ydl_urls) : \A d \in Events[ydl_urls[i]] :
            HookStep(i, d) =>
                /\ (Status(d) = "downloading" /\ individual_progress_bar = NoBar)
                        => /\ individual_progress_bar' # NoBar
                           /\ individual_progress_bar'.total = ReportedTotal(d)
                           /\ individual_progress_bar'.n = 0
                /\ IsTerminal(d) => individual_progress_bar' = NoBar
      ]_vars

\* A download pass starts in this step.
PassStarts == pc' \in {"pass1", "pass2"} /\ pc' # pc

\* C16: the ErrorSet is empty when a pass starts; the retry list is the
\* ErrorSet as pass 1 left it; the step that takes the retry list empties the
\* ErrorSet before pass 2 starts, so no pass-2 event meets an entry of pass 1;
\* and pass 2 is handed exactly the retry list.
ErrorSetIsScopedPerPass ==
    [][ /\ PassStarts => failed_urls' = <<>>
        /\ (PassStarts /\ pc' = "pass2")
                => /\ pc = "decide"
                   /\ retry_list' = failed_urls
                   /\ ydl_urls' = retry_list'
                   /\ UrlsOfPass(delivered') = retry_list'
        /\ pc' = "pass1" => retry_list' = <<>>
        /\ (pc = "pass2" /\ pc' = "pass2")
                => /\ ydl_urls' = retry_list
                   /\ retry_list' = retry_list
                   /\ Range(failed_urls') \subseteq Range(retry_list)
      ]_vars

\* C16 witness: pass 2 is running on the retry list and its item has failed
\* again, so the ErrorSet holds the failure of pass 2.
RetriedItemFailedAgain ==
    /\ pc = "pass2"
    /\ Len(retry_list) = 1
    /\ ydl_urls = retry_list
    /\ delivered[1].error = 1
    /\ failed_urls = retry_list

\* The order of the stages of a run.
StageOrder ==
    { <<"start", "configured">>, <<"start", "exit">>,
      <<"configured", "fetched">>, <<"configured", "exit">>,
      <<"fetched", "scanned">>,
      <<"scanned", "queued">>, <<"scanned", "exit">>,
      <<"queued", "pass1">>,
      <<"pass1", "decide">>,
      <<"decide", "pass2">>, <<"decide", "done">>,
      <<"pass2", "done">> }

\* C17: the stages follow one another in the order scan, build, pass 1, retry
\* decision, pass 2, final report. Events are processed only inside a pass, about
\* the list of that pass: none of pass 1 once the retry decision is reached, and
\* nothing at all once the final report is out. The retry list and the report
\* are written by the retry decision and the end of pass 2 only.
PipelineIsSequential ==
    [][ /\ pc' # pc => << pc, pc' >> \in StageOrder
        /\ pc' = pc => InPass
        /\ (pc' = pc /\ pc = "pass1")
                => invocations = 1 /\ ydl_urls = songs_to_download
        /\ (pc' = pc /\ pc = "pass2")
                => invocations = 2 /\ ydl_urls = retry_list
        /\ ( \/ playlist_file' # playlist_file
             \/ total_finished' # total_finished
             \/ events_left' # events_left
             \/ individual_progress_bar' # individual_progress_bar )
                => (InPass /\ pc' = pc)
        /\ retry_list' # retry_list => (pc = "decide" /\ pc' = "pass2")
        /\ report' # report => (pc \in {"decide", "pass2"} /\ pc' = "done")
        /\ pc # "done"
      ]_vars

\* C17 witness: a run went through every stage: pass 1 failed an item, the
\* retry finished it, and the final report is out.
RunWentThroughEveryStage ==
    /\ pc = "done"
    /\ invocations = 2
    /\ total_finished = 1
    /\ report.kind = "all succeeded on retry"
    /\ Len(playlist_file) = Len(playlist_file0) + 1

\* The lines the run has appended to the playlist file.
AppendedLines == SubSeq(playlist_file, Len(playlist_file0) + 1, Len(playlist_file))

\* How many appended lines name a file carrying the identity token of url.
LinesReferencing(url) ==
    Cardinality({k \in 1..Len(AppendedLines) :
                    Contains(IdentityToken(VideoIdOf(url)), AppendedLines[k])})

\* Every item of every pass of the run got exactly one terminal event.
OneTerminalEventPerItemAndPass == pass1_exact /\ ExactlyOneTerminalEach

\* C18: at the end of a completed run in which every submitted item got one
\* terminal event per pass, each queued item is either referenced by exactly
\* one appended playlist line and absent from the reported failures, or
\* reported as failed and referenced by no appended line.
EveryItemIsAccountedFor ==
    (pc = "done" /\ OneTerminalEventPerItemAndPass) =>
        \A i \in 1..Len(songs_to_download) :
            LET url == songs_to_download[i] IN
            \/ LinesReferencing(url) = 1 /\ url \notin Range(report.urls)
            \/ LinesReferencing(url) = 0 /\ url \in Range(report.urls)

\* The audio file a finished download of url leaves in the music folder: the
\* name the hook itself writes to the playlist, [remoteId] token included.
ProducedFile(url) == FinishedFilename(WellFormedEvent(url, "finished"))

\* The queue the next run builds from the same playlist when the downloads of
\* the items in `done` have produced their audio files since this run's scan.
QueueOfNextRun(done) ==
    build_download_queue(tracks, downloaded_files \cup {ProducedFile(url) : url \in done})

\* C19: whatever part of the queue a run (complete or interrupted) has turned
\* into audio files, the next run on the same playlist queues none of those
\* items and queues the others as before; after a run that produced every
\* item the next queue is empty.
RestartIsIdempotent ==
    QueueBuilt =>
        /\ \A done \in SUBSET Range(songs_to_download) :
                /\ Range(QueueOfNextRun(done)) \cap done = {}
                /\ QueueOfNextRun(done) =
                        SelectSeq(songs_to_download, LAMBDA url : url \notin done)
        /\ QueueIsEmpty(QueueOfNextRun(Range(songs_to_download)))

\* C19 witness: a queue of two items of which a run produced the first; the
\* next run queues the second only.
RestartSkipsProducedItem ==
    /\ pc = "queued"
    /\ Len(songs_to_download) = 2
    /\ songs_to_download[1] # songs_to_download[2]
    /\ QueueOfNextRun({songs_to_download[1]}) = << songs_to_download[2] >>
    /\ QueueOfNextRun(Range(songs_to_download)) = <<>>

\* C20: what each branch of the hook leaves alone. A step of a pass that
\* processes no terminal event (a "downloading" event or one of another status)
\* leaves the aggregate counter, the ErrorSet and the playlist file unchanged; a
\* "finished" event leaves the ErrorSet unchanged; an "error" event leaves the
\* playlist file unchanged; an event of any other status changes nothing of
\* the handler state.
HookFrameConditions ==
    /\ [][ (InPass /\ pc' = pc) =>
                /\ events_left' = events_left
                        => UNCHANGED << global_progress_bar, failed_urls, playlist_file >>
                /\ total_finished' # total_finished => UNCHANGED failed_urls
                /\ (events_left' # events_left /\ total_finished' = total_finished)
                        => UNCHANGED playlist_file
          ]_vars
    /\ [](InPass =>
            \A d \in OtherEvents(ydl_urls[1]) :
                ~ENABLED (progress_hook(d) /\ hookState' # hookState))

\* C20 witness: in one pass a "finished" event, an "error" event and a
\* "downloading" event have been processed: one line appended, one failure
\* recorded, two ticks, and a tracker active.
EveryBranchHasRun ==
    /\ pc = "pass1"
    /\ total_finished = 1
    /\ Len(playlist_file) = Len(playlist_file0) + 1
    /\ Len(failed_urls) = 1
    /\ global_progress_bar.n = 2
    /\ individual_progress_bar # NoBar
    /\ individual_progress_bar.n > 0

====
